---- MODULE Spec2Model ----
(***************************************************************************)
(* Model of src/Exploratory/compare_files.py: the keyed comparison of two  *)
(* tab-separated files (load_data_file, run_comparison_test) and the batch *)
(* driver (load_config, main).                                             *)
(*                                                                         *)
(* Cell texts and column names are strings.  A loaded cell is a string or  *)
(* NaN, the missing-value marker pandas puts where read_csv finds no data. *)
(* A DataFrame is [columns, data]: the column names in order and one tuple *)
(* of cells per row; an indexed DataFrame adds index, one key tuple per    *)
(* row.  A file is [exists, lines], a line being its tab-separated fields. *)
(***************************************************************************)
EXTENDS Integers, Sequences, FiniteSets, TLC

\* ------------------------------------------------------------------ bounds
\* Longest data section (rows after the header) of an input file.
MaxRows == 2
\* Longest config['input_files'] list of a batch.
MaxJobs == 2

\* --------------------------------------------------------------- constants
KEY_COLS == <<"HQ_CODE", "ID", "MBR_NO">>

\* Python's None where an object (a DataFrame, the config) is expected, and
\* where a cell value is expected; pandas' NaN.  None of them is a cell text.
None == [none |-> TRUE]
NoneValue == "<None>"
NaN == "<NaN>"

\* The strings read_csv turns into NaN when na_values is left at its default
\* (line 32 passes neither na_values nor keep_default_na): the members of
\* pandas' default list that the inputs below use.
NA_VALUES == {"", "NA", "null", "NaN"}

Range(s) == {s[i] : i \in 1..Len(s)}

RECURSIVE SeqsUpTo(_, _)
\* All sequences over S of length at most n.
SeqsUpTo(S, n) ==
    IF n = 0 THEN {<<>>}
    ELSE LET shorter == SeqsUpTo(S, n - 1)
         IN  shorter \cup {Append(q, x) : q \in shorter, x \in S}

\* ------------------------------------------------------------ text helpers
\* str.strip() on the header names the inputs use.
Strip(s) ==
    CASE s = " ID " -> "ID"
      [] s = "NAME " -> "NAME"
      [] OTHER -> s

\* Code points of the key texts the inputs use: Python orders str by them.
CodePoints(s) ==
    CASE s = "1" -> <<49>>
      [] s = "2" -> <<50>>
      [] s = "10" -> <<49, 48>>
      [] OTHER -> <<>>

RECURSIVE SeqLess(_, _)
\* Lexicographic order of two code-point sequences (Python's str <).
SeqLess(a, b) ==
    IF a = <<>> THEN b # <<>>
    ELSE IF b = <<>> THEN FALSE
    ELSE IF a[1] # b[1] THEN a[1] < b[1]
    ELSE SeqLess(Tail(a), Tail(b))

\* Order of two index labels: strings by code point, NaN after every string
\* (sort_index's na_position = 'last').
LabelLess(a, b) ==
    IF a = NaN THEN FALSE
    ELSE IF b = NaN THEN TRUE
    ELSE SeqLess(CodePoints(a), CodePoints(b))

RECURSIVE TupleLess(_, _)
\* Lexicographic order of two key tuples over the key's column order.
TupleLess(a, b) ==
    IF a = <<>> THEN FALSE
    ELSE IF a[1] # b[1] THEN LabelLess(a[1], b[1])
    ELSE TupleLess(Tail(a), Tail(b))

\* pd.notna: false of None and of NaN.
NotNa(v) == v # NoneValue /\ v # NaN

\* os.path.basename of a path [dir, base].
Basename(p) == p.base

\* ------------------------------------------------------------ load_data_file
\* A faulty ReadCell: keep_default_na switched off, every field kept as text.
ReadCell_KeepText(text) == text

\* read_csv's conversion of one field under dtype=str: a default NA string
\* becomes NaN, any other text is kept as it is.
ReadCell(text) == IF text \in NA_VALUES THEN NaN ELSE text

IsBlank(line) == line = <<>>

RECURSIVE DropBlank(_)
\* skip_blank_lines (read_csv's default): blank lines are not rows.
DropBlank(lines) ==
    IF lines = <<>> THEN <<>>
    ELSE IF IsBlank(lines[1]) THEN DropBlank(Tail(lines))
    ELSE <<lines[1]>> \o DropBlank(Tail(lines))

\* One data line as a row of width n: a line with fewer fields than the
\* header is padded with NaN.  (No input has a line longer than its header.)
ReadRow(line, n) ==
    [j \in 1..n |-> IF j <= Len(line) THEN ReadCell(line[j]) ELSE NaN]

\* pd.read_csv(file_path, sep=TAB_SEP, skiprows=skip_rows, dtype=str) followed
\* by df.columns.str.strip(): None stands for the exception read_csv raises
\* when no header line is left (EmptyDataError), caught at line 36.
ReadCsv(file, skip_rows) ==
    LET body == DropBlank(SubSeq(file.lines, skip_rows + 1, Len(file.lines)))
    IN  IF body = <<>> THEN None
        ELSE LET header == [j \in 1..Len(body[1]) |-> Strip(body[1][j])]
                 rows == Tail(body)
             IN  [columns |-> header,
                  data |-> [i \in 1..Len(rows) |-> ReadRow(rows[i], Len(header))]]

\* load_data_file: the DataFrame, or None with the message it prints.
load_data_file(fsys, file_path, skip_rows) ==
    IF ~fsys[file_path].exists
    THEN [df |-> None, printed |-> <<[kind |-> "FileNotFound", path |-> file_path]>>]
    ELSE LET df == ReadCsv(fsys[file_path], skip_rows)
         IN  IF df = None
             THEN [df |-> None, printed |-> <<[kind |-> "ErrorReading", path |-> file_path]>>]
             ELSE [df |-> df, printed |-> <<>>]

\* ------------------------------------------------- DataFrame.set_index/sort
\* Position of column c in a column list.
ColPos(columns, c) == CHOOSE j \in 1..Len(columns) : columns[j] = c

\* df.set_index(keys) raises KeyError when a key is not a column.
HasKeys(df, keys) == \A k \in Range(keys) : k \in Range(df.columns)

\* df.set_index(keys), for a df that has the keys: the key cells of each row
\* become its index tuple and leave the columns.  Rows with equal tuples or
\* with NaN in a key are taken as they are (verify_integrity is False).
set_index(df, keys) ==
    LET rest == SelectSeq(df.columns, LAMBDA c : c \notin Range(keys))
        n == Len(df.data)
    IN  [index |-> [i \in 1..n |->
                      [k \in 1..Len(keys) |-> df.data[i][ColPos(df.columns, keys[k])]]],
         columns |-> rest,
         data |-> [i \in 1..n |->
                     [j \in 1..Len(rest) |-> df.data[i][ColPos(df.columns, rest[j])]]]]

RECURSIVE InsertSorted(_, _, _)
\* Row position p put into the sorted position list after every position
\* whose tuple is not greater: rows with equal tuples keep their file order.
InsertSorted(sorted, p, index) ==
    IF sorted = <<>> THEN <<p>>
    ELSE IF TupleLess(index[p], index[sorted[1]]) THEN <<p>> \o sorted
    ELSE <<sorted[1]>> \o InsertSorted(Tail(sorted), p, index)

RECURSIVE SortPositions(_, _)
\* The row positions 1..n in ascending order of their index tuples (stable).
SortPositions(index, n) ==
    IF n = 0 THEN <<>>
    ELSE InsertSorted(SortPositions(index, n - 1), n, index)

\* A faulty sort_index: the rows are left in file order.
sort_index_Unsorted(df) == df

\* df.sort_index(): rows reordered by index tuple, ascending.
sort_index(df) ==
    LET perm == SortPositions(df.index, Len(df.index))
    IN  [index |-> [i \in 1..Len(perm) |-> df.index[perm[i]]],
         columns |-> df.columns,
         data |-> [i \in 1..Len(perm) |-> df.data[perm[i]]]]

\* -------------------------------------------------------- DataFrame.compare
\* compare raises ValueError ("Can only compare identically-labeled ...")
\* unless both frames carry the same index and the same columns, in order.
IdenticallyLabeled(self, other) ==
    self.index = other.index /\ self.columns = other.columns

\* Elementwise ==: false as soon as one side is NaN.
CellEq(a, b) == a # NaN /\ b # NaN /\ a = b

\* A faulty CellDiffers: two missing cells are not recognised as equal.
CellDiffers_NaNUnequal(a, b) == ~CellEq(a, b)

\* A faulty CellDiffers: a difference is seen only where self has a value.
CellDiffers_SelfOnly(a, b) == a # NaN /\ ~CellEq(a, b)

\* compare's mask, ~((self == other) | (self.isna() & other.isna())).
CellDiffers(a, b) == ~(CellEq(a, b) \/ (a = NaN /\ b = NaN))

\* self.compare(other, align_axis=0) on identically labeled frames: cells that
\* agree become NaN, rows and columns without any difference are dropped, and
\* each remaining row appears twice, as (key..., 'self') then (key..., 'other');
\* the columns stay the plain column names.
compare(self, other) ==
    LET n == Len(self.data)
        m == Len(self.columns)
        mask == [i \in 1..n |-> [j \in 1..m |-> CellDiffers(self.data[i][j], other.data[i][j])]]
        allRows == [i \in 1..n |-> i]
        allCols == [j \in 1..m |-> j]
        rsel == SelectSeq(allRows, LAMBDA i : \E j \in 1..m : mask[i][j])
        csel == SelectSeq(allCols, LAMBDA j : \E i \in 1..n : mask[i][j])
        Side(frame, i) == [c \in 1..Len(csel) |->
                             IF mask[i][csel[c]] THEN frame.data[i][csel[c]] ELSE NaN]
    IN  [index |-> [p \in 1..(2 * Len(rsel)) |->
                      IF p % 2 = 1 THEN Append(self.index[rsel[(p + 1) \div 2]], "self")
                      ELSE Append(self.index[rsel[p \div 2]], "other")],
         columns |-> [c \in 1..Len(csel) |-> self.columns[csel[c]]],
         data |-> [p \in 1..(2 * Len(rsel)) |->
                     IF p % 2 = 1 THEN Side(self, rsel[(p + 1) \div 2])
                     ELSE Side(other, rsel[p \div 2])]]

\* ------------------------------------------------------- formatting (81-107)
\* Series.get(key) on a row of df_diff: the row's labels are its plain column
\* names, here 1-tuples; a key that is no label gives None.
SeriesGet(labels, values, key) ==
    IF \E j \in 1..Len(labels) : <<labels[j]>> = key
    THEN values[CHOOSE j \in 1..Len(labels) : <<labels[j]>> = key]
    ELSE NoneValue

RECURSIVE Unique(_)
\* Index.unique(): first occurrences, in order.
Unique(s) ==
    IF s = <<>> THEN <<>>
    ELSE LET front == Unique(SubSeq(s, 1, Len(s) - 1))
         IN  IF s[Len(s)] \in Range(front) THEN front ELSE Append(front, s[Len(s)])

\* zip(KEY_COLS, index): pairs up to the shorter of the two.
Zip(a, b) ==
    [k \in 1..(IF Len(a) < Len(b) THEN Len(a) ELSE Len(b)) |-> <<a[k], b[k]>>]

\* The text of one field, lines 95-103: the name, then the BEFORE part when
\* val_before is not NA, then the AFTER part when val_after is not NA; a part
\* is <<value>> when printed and <<>> when left out.
FieldOutput(col_name, val_before, val_after) ==
    [field |-> col_name,
     before |-> IF NotNa(val_before) THEN <<val_before>> ELSE <<>>,
     after |-> IF NotNa(val_after) THEN <<val_after>> ELSE <<>>]

\* One pass of the loop at line 87 for row p of df_diff: the KEY parts, then a
\* field part for every column whose looked-up values are not both NA.
OutputRow(diff, p) ==
    LET cols == Unique(diff.columns)
        ValBefore(c) == SeriesGet(diff.columns, diff.data[p], <<c, "self">>)
        ValAfter(c) == SeriesGet(diff.columns, diff.data[p], <<c, "other">>)
        shown == SelectSeq(cols, LAMBDA c : NotNa(ValBefore(c)) \/ NotNa(ValAfter(c)))
    IN  [keys |-> Zip(KEY_COLS, diff.index[p]),
         fields |-> [f \in 1..Len(shown) |->
                       FieldOutput(shown[f], ValBefore(shown[f]), ValAfter(shown[f]))]]

\* output_rows after the loop: one entry per row of df_diff, in its order.
FormatOutput(diff) == [p \in 1..Len(diff.index) |-> OutputRow(diff, p)]

\* ------------------------------------------------------------------- inputs
\* The worlds a run starts in: a config file and the files its jobs name.
Path(base) == [dir |-> "data", base |-> base]
MissingFile == [exists |-> FALSE, lines |-> <<>>]
File(lines) == [exists |-> TRUE, lines |-> lines]

\* The 'before' export opens with a metadata line ahead of its header.
MetaLine == <<"EXPORT 2024-01-01">>
BeforeFile(header, rows) == File(<<MetaLine, header>> \o rows)
AfterFile(header, rows) == File(<<header>> \o rows)

FullHeader == <<"HQ_CODE", "ID", "MBR_NO", "NAME">>

DropCol(header, c) == SelectSeq(header, LAMBDA h : h # c)

\* Header lines: complete, one column short, padded names, one column more,
\* and the complete set in another order.
Headers ==
    {FullHeader} \cup {DropCol(FullHeader, c) : c \in Range(FullHeader)}
    \cup {<<"HQ_CODE", " ID ", "MBR_NO", "NAME ">>,
          FullHeader \o <<"CITY">>,
          <<"NAME", "HQ_CODE", "ID", "MBR_NO">>}

\* Data lines under FullHeader with both key and name present.
PlainRows == {<<"1", id, "1", name>> : id \in {"1", "2"}, name \in {"Alice", "Alicia"}}

\* Data lines under FullHeader: an empty key; one key with a missing, an
\* empty, an NA and a plain name; and a key that sorts as text, not as number.
SpecialRows ==
    {<<"1", "", "1", "Alice">>, <<"1", "1", "1">>, <<"1", "1", "1", "">>,
     <<"1", "1", "1", "NA">>, <<"1", "1", "1", "Alice">>, <<"1", "10", "1", "Alice">>}

\* A person as a data line under a given header.
Person(name) ==
    [c \in {"HQ_CODE", "ID", "MBR_NO", "NAME", "CITY"} |->
        IF c = "NAME" THEN name ELSE IF c = "CITY" THEN "Oslo" ELSE "1"]
LineFor(header, person) == [j \in 1..Len(header) |-> person[Strip(header[j])]]

OneJob == [input_files |->
             <<[name |-> "t1", before_path |-> Path("before.tsv"),
                after_path |-> Path("after.tsv")]>>]

World(before, after) ==
    [config_file |-> [exists |-> TRUE, content |-> OneJob],
     fs |-> [p \in {Path("before.tsv"), Path("after.tsv")} |->
               IF p = Path("before.tsv") THEN before ELSE after]]

\* One job over files with the complete header and any rows.
PlainWorlds ==
    {World(BeforeFile(FullHeader, b), AfterFile(FullHeader, a)) :
        b \in SeqsUpTo(PlainRows, MaxRows), a \in SeqsUpTo(PlainRows, MaxRows)}

\* One job over files of equal length holding the special rows.
SpecialWorlds ==
    {World(BeforeFile(FullHeader, b), AfterFile(FullHeader, a)) :
        <<b, a>> \in {ba \in SeqsUpTo(SpecialRows, MaxRows) \X SeqsUpTo(SpecialRows, MaxRows) :
                        Len(ba[1]) = Len(ba[2])}}

\* One job over one-row files with any two header lines.
HeaderWorlds ==
    {World(BeforeFile(hb, <<LineFor(hb, Person("Alice"))>>),
           AfterFile(ha, <<LineFor(ha, Person(name))>>)) :
        hb \in Headers, ha \in Headers, name \in {"Alice", "Alicia"}}

\* One job over one-row files whose names are equal as numbers, not as text.
NumberWorlds ==
    {World(BeforeFile(FullHeader, <<<<"1", "1", "1", b>>>>),
           AfterFile(FullHeader, <<<<"1", "1", "1", a>>>>)) :
        b \in {"1", "1.0", "01"}, a \in {"1", "1.0", "01"}}

\* One job over files that are missing, empty, cut short, or end in a blank line.
AliceLine == <<"1", "1", "1", "Alice">>
FileWorlds ==
    {World(b, a) :
        b \in {MissingFile, File(<<>>), File(<<MetaLine>>),
               BeforeFile(FullHeader, <<AliceLine>>)},
        a \in {MissingFile, File(<<>>), AfterFile(FullHeader, <<AliceLine>>),
               AfterFile(FullHeader, <<AliceLine, <<>>>>)}}

\* The files of a batch, and the entries its config may list.
BatchFs ==
    [p \in {Path(b) : b \in {"b.tsv", "same.tsv", "diff.tsv", "gone.tsv", "two.tsv",
                             "nokey.tsv", "cols.tsv"}} |->
        CASE p.base = "b.tsv" -> BeforeFile(FullHeader, <<AliceLine>>)
          [] p.base = "same.tsv" -> AfterFile(FullHeader, <<AliceLine>>)
          [] p.base = "diff.tsv" -> AfterFile(FullHeader, <<<<"1", "1", "1", "Alicia">>>>)
          [] p.base = "gone.tsv" -> MissingFile
          [] p.base = "two.tsv" -> AfterFile(FullHeader, <<AliceLine, <<"1", "2", "1", "Bob">>>>)
          [] p.base = "nokey.tsv" -> AfterFile(<<"HQ_CODE", "ID", "NAME">>, <<<<"1", "1", "Alice">>>>)
          [] p.base = "cols.tsv" -> AfterFile(FullHeader \o <<"CITY">>, <<AliceLine \o <<"Oslo">>>>)]

Job(name, before, after) ==
    [name |-> name, before_path |-> Path(before), after_path |-> Path(after)]

BatchEntries ==
    {Job("same", "b.tsv", "same.tsv"), Job("diff", "b.tsv", "diff.tsv"),
     Job("gone", "gone.tsv", "same.tsv"), Job("two", "b.tsv", "two.tsv"),
     Job("nokey", "b.tsv", "nokey.tsv"), Job("cols", "b.tsv", "cols.tsv"),
     [name |-> "malformed", before_path |-> Path("b.tsv")]}

\* A batch of up to MaxJobs entries, a config without a usable job list, or no
\* config file at all.
BatchWorlds ==
    {[config_file |-> [exists |-> TRUE, content |-> [input_files |-> jobs]], fs |-> BatchFs] :
        jobs \in SeqsUpTo(BatchEntries, MaxJobs)}
    \cup {[config_file |-> [exists |-> TRUE, content |-> [other |-> <<>>]], fs |-> BatchFs],
          [config_file |-> [exists |-> FALSE, content |-> None], fs |-> BatchFs]}

\* Data lines under FullHeader for the two-way comparison: two keys, a name
\* that changes and a name that is missing.
MirrorRows ==
    {<<"1", "1", "1", "Alice">>, <<"1", "1", "1">>, <<"1", "2", "1", "Alice">>,
     <<"1", "2", "1", "Alicia">>}

\* Two jobs over two datasets A and B of equal length: A against B, then B
\* against A; each dataset is on disk as a 'before' and as an 'after' file.
MirrorWorld(a, b) ==
    [config_file |->
        [exists |-> TRUE,
         content |-> [input_files |-> <<Job("forward", "a_before.tsv", "b_after.tsv"),
                                        Job("reverse", "b_before.tsv", "a_after.tsv")>>]],
     fs |-> [p \in {Path(n) : n \in {"a_before.tsv", "b_after.tsv", "b_before.tsv",
                                      "a_after.tsv"}} |->
               CASE p.base = "a_before.tsv" -> BeforeFile(FullHeader, a)
                 [] p.base = "b_after.tsv" -> AfterFile(FullHeader, b)
                 [] p.base = "b_before.tsv" -> BeforeFile(FullHeader, b)
                 [] p.base = "a_after.tsv" -> AfterFile(FullHeader, a)]]

MirrorWorlds ==
    {MirrorWorld(ab[1], ab[2]) :
        ab \in {x \in SeqsUpTo(MirrorRows, MaxRows) \X SeqsUpTo(MirrorRows, MaxRows) :
                  Len(x[1]) = Len(x[2])}}

Worlds ==
    PlainWorlds \cup SpecialWorlds \cup HeaderWorlds \cup NumberWorlds \cup FileWorlds
    \cup BatchWorlds \cup MirrorWorlds

\* -------------------------------------------------------------------- state
VARIABLES
    config_file,        \* config.json: [exists, content]
    fs,                 \* the data files, by path
    pc,                 \* where main / run_comparison_test stands
    config,             \* main's config, None before load_config returns
    i,                  \* position of the for loop at line 128
    calls,              \* the positions run_comparison_test was called for
    stdout,             \* what has been printed, one report per outcome
    df_before, df_after,
    df_before_aligned, df_after_aligned,
    df_diff,
    output_rows

frames == <<df_before, df_after, df_before_aligned, df_after_aligned, df_diff, output_rows>>
compare_vars == <<config_file, fs, pc, config, i, calls, stdout, frames>>

\* The state of the two PDF extractors (pdf_table_extractor.py and
\* pdf_table_extractor_to_json.py): main's loop over pdf_files and the locals
\* of extract_tables.  The comparison tool leaves it alone.
VARIABLES
    extractor,          \* which program runs, and whether 'import tabula' works
    pdf_files,          \* main's pdf_files: the documents, in order
    pdf_pc,             \* where main / extract_tables stands
    pdf_file,           \* position of main's for loop over pdf_files
    page_num,           \* extract_tables: the page being scanned, from 1
    idx,                \* extract_tables: the next table of the page, from 0
    seen_titles,
    all_tables,
    tables,             \* what extract_tables returned
    pdf_data,           \* main's pdf_data: the tables stored per document
    log                 \* the records logging wrote for extract_tables

pdf_vars == <<extractor, pdf_files, pdf_pc, pdf_file, page_num, idx, seen_titles,
              all_tables, tables, pdf_data, log>>
vars == <<compare_vars, pdf_vars>>

\* No extractor is running.
PdfIdle ==
    /\ extractor = [program |-> "excel", tabula |-> TRUE]
    /\ pdf_files = <<>>
    /\ pdf_pc = "idle"
    /\ pdf_file = 0
    /\ page_num = 0
    /\ idx = 0
    /\ seen_titles = {}
    /\ all_tables = <<>>
    /\ tables = <<>>
    /\ pdf_data = <<>>
    /\ log = <<>>

Init ==
    /\ \E w \in Worlds : config_file = w.config_file /\ fs = w.fs
    /\ pc = "main"
    /\ config = None
    /\ i = 0
    /\ calls = <<>>
    /\ stdout = <<>>
    /\ df_before = None /\ df_after = None
    /\ df_before_aligned = None /\ df_after_aligned = None
    /\ df_diff = None
    /\ output_rows = <<>>
    /\ PdfIdle

test_case == config.input_files[i]

\* A faulty EitherIsNone: only the 'before' load is looked at.
EitherIsNone_BeforeOnly(before, after) == before = None

\* Line 56.
EitherIsNone(before, after) == before = None \/ after = None

\* A faulty RowCountsDiffer: only a shorter 'before' file is caught.
RowCountsDiffer_Shorter(before, after) == Len(before.data) < Len(after.data)

\* Line 60.
RowCountsDiffer(before, after) == Len(before.data) # Len(after.data)

\* A faulty KeyErrorReport: the message without the column list.
KeyErrorReport_NoColumns == [kind |-> "KeyColumnError", columns |-> <<>>]

\* Line 74: the message names KEY_COLS, whichever column set_index missed.
KeyErrorReport == [kind |-> "KeyColumnError", columns |-> KEY_COLS]

\* run_comparison_test returns: its report is on stdout, its locals are gone,
\* and main's loop moves on.
Return(report) ==
    /\ stdout' = Append(stdout, report)
    /\ pc' = "loop"
    /\ i' = i + 1
    /\ df_before' = None /\ df_after' = None
    /\ df_before_aligned' = None /\ df_after_aligned' = None
    /\ df_diff' = None
    /\ output_rows' = <<>>
    /\ UNCHANGED <<config_file, fs, config, calls>>

\* main, lines 122-126, with load_config (13-19).
LoadConfig ==
    /\ pc = "main"
    /\ UNCHANGED pdf_vars
    /\ IF ~config_file.exists
       THEN /\ pc' = "exited"
            /\ stdout' = Append(stdout, [kind |-> "ConfigNotFound"])
            /\ UNCHANGED <<config, i>>
       ELSE IF "input_files" \notin DOMAIN config_file.content
               \/ config_file.content.input_files = <<>>
       THEN /\ pc' = "returned"
            /\ stdout' = Append(stdout, [kind |-> "NoInputFiles"])
            /\ config' = config_file.content
            /\ UNCHANGED i
       ELSE /\ pc' = "loop"
            /\ config' = config_file.content
            /\ i' = 1
            /\ UNCHANGED stdout
    /\ UNCHANGED <<config_file, fs, calls, frames>>

\* main's loop, lines 128-132: the next entry is run, or skipped as malformed.
NextTestCase ==
    /\ pc = "loop"
    /\ UNCHANGED pdf_vars
    /\ IF i > Len(config.input_files)
       THEN /\ pc' = "returned"
            /\ UNCHANGED <<i, calls, stdout>>
       ELSE IF {"name", "before_path", "after_path"} \subseteq DOMAIN test_case
       THEN /\ pc' = "load"
            /\ calls' = Append(calls, i)
            /\ UNCHANGED <<i, stdout>>
       ELSE /\ stdout' = Append(stdout, [kind |-> "MalformedEntry", entry |-> test_case])
            /\ i' = i + 1
            /\ UNCHANGED <<pc, calls>>
    /\ UNCHANGED <<config_file, fs, config, frames>>

\* run_comparison_test, lines 52-57: both files are loaded, then the test ends
\* if either load gave None.
LoadFiles ==
    /\ pc = "load"
    /\ UNCHANGED pdf_vars
    /\ LET before == load_data_file(fs, test_case.before_path, 1)
           after == load_data_file(fs, test_case.after_path, 0)
       IN  IF EitherIsNone(before.df, after.df)
           THEN Return([kind |-> "SourceUnavailable",
                        printed |-> before.printed \o after.printed])
           ELSE /\ df_before' = before.df
                /\ df_after' = after.df
                /\ pc' = "rowcount"
                /\ UNCHANGED <<config_file, fs, config, i, calls, stdout,
                               df_before_aligned, df_after_aligned, df_diff, output_rows>>

\* Lines 60-67.
RowCountCheck ==
    /\ pc = "rowcount"
    /\ UNCHANGED pdf_vars
    /\ IF RowCountsDiffer(df_before, df_after)
       THEN Return([kind |-> "RowCountMismatch",
                    before |-> Basename(test_case.before_path),
                    before_rows |-> Len(df_before.data),
                    after |-> Basename(test_case.after_path),
                    after_rows |-> Len(df_after.data)])
       ELSE /\ pc' = "align"
            /\ UNCHANGED <<config_file, fs, config, i, calls, stdout, frames>>

\* Lines 70-75: KeyError from either set_index is caught and reported with
\* the whole of KEY_COLS.
AlignFrames ==
    /\ pc = "align"
    /\ UNCHANGED pdf_vars
    /\ IF HasKeys(df_before, KEY_COLS) /\ HasKeys(df_after, KEY_COLS)
       THEN /\ df_before_aligned' = sort_index(set_index(df_before, KEY_COLS))
            /\ df_after_aligned' = sort_index(set_index(df_after, KEY_COLS))
            /\ pc' = "compare"
            /\ UNCHANGED <<config_file, fs, config, i, calls, stdout,
                           df_before, df_after, df_diff, output_rows>>
       ELSE Return(KeyErrorReport)

\* Line 78.  The ValueError of frames that are not identically labeled is
\* caught neither here nor in main: the process ends with a traceback.
CompareFrames ==
    /\ pc = "compare"
    /\ UNCHANGED pdf_vars
    /\ IF IdenticallyLabeled(df_before_aligned, df_after_aligned)
       THEN /\ df_diff' = compare(df_before_aligned, df_after_aligned)
            /\ pc' = "format"
            /\ UNCHANGED stdout
       ELSE /\ pc' = "raised"
            /\ stdout' = Append(stdout, [kind |-> "Traceback", error |-> "ValueError"])
            /\ UNCHANGED df_diff
    /\ UNCHANGED <<config_file, fs, config, i, calls, df_before, df_after,
                   df_before_aligned, df_after_aligned, output_rows>>

\* Lines 81-107.
FormatRows ==
    /\ pc = "format"
    /\ UNCHANGED pdf_vars
    /\ output_rows' = FormatOutput(df_diff)
    /\ pc' = "final"
    /\ UNCHANGED <<config_file, fs, config, i, calls, stdout, df_before, df_after,
                   df_before_aligned, df_after_aligned, df_diff>>

\* Lines 110-116.
FinalResult ==
    /\ pc = "final"
    /\ UNCHANGED pdf_vars
    /\ IF output_rows # <<>>
       THEN Return([kind |-> "DifferencesFound", rows |-> output_rows])
       ELSE Return([kind |-> "NoDifferences"])

Next ==
    \/ LoadConfig
    \/ NextTestCase
    \/ LoadFiles
    \/ RowCountCheck
    \/ AlignFrames
    \/ CompareFrames
    \/ FormatRows
    \/ FinalResult

Spec == Init /\ [][Next]_vars

\* ------------------------------------------------- facts about a job's input
\* Read off the config and the files, for stating the properties below.
WellFormed(entry) == {"name", "before_path", "after_path"} \subseteq DOMAIN entry

\* The positions of stdout that report on a config entry: entry j's report is
\* stdout[j].
Reported ==
    IF config = None \/ "input_files" \notin DOMAIN config THEN {}
    ELSE {j \in 1..Len(stdout) : j <= Len(config.input_files)}

Entry(j) == config.input_files[j]
BeforeOf(entry) == fs[entry.before_path]
AfterOf(entry) == fs[entry.after_path]

\* A file that exists and has a header line after the skipped lines.
Available(file, skip) ==
    file.exists /\ \E k \in (skip + 1)..Len(file.lines) : file.lines[k] # <<>>

\* Every input has its header right after the skipped lines.
HeaderOf(file, skip) == file.lines[skip + 1]
ColumnNames(file, skip) == {Strip(h) : h \in Range(HeaderOf(file, skip))}
DataLinesOf(file, skip) ==
    SelectSeq(SubSeq(file.lines, skip + 2, Len(file.lines)), LAMBDA l : l # <<>>)
RowCount(file, skip) == Len(DataLinesOf(file, skip))

BothAvailable(entry) == Available(BeforeOf(entry), 1) /\ Available(AfterOf(entry), 0)
EqualRowCounts(entry) == RowCount(BeforeOf(entry), 1) = RowCount(AfterOf(entry), 0)
MissingKeysOf(file, skip) == {k \in Range(KEY_COLS) : k \notin ColumnNames(file, skip)}
MissingKeys(entry) == MissingKeysOf(BeforeOf(entry), 1) \cup MissingKeysOf(AfterOf(entry), 0)

\* The key tuples of a file that has the key columns, in file order.
KeyTuples(file, skip) == set_index(ReadCsv(file, skip), KEY_COLS).index
HasDuplicate(index) == \E p, q \in 1..Len(index) : p # q /\ index[p] = index[q]
HasNullKey(index) == \E p \in 1..Len(index) : NaN \in Range(index[p])
BadKeys(index) == HasDuplicate(index) \/ HasNullKey(index)

\* A cell as a reported value: <<text>>, or <<>> when it is absent.
Opt(v) == IF v = NaN THEN <<>> ELSE <<v>>

\* run_comparison_test is past the point named, working on test_case.
Comparing == pc \in {"compare", "format", "final"}

\* ------------------------------------------------------------------- claims

\* The (key, field, before, after) records output_rows holds, and how many
\* field parts it holds.
EmittedRecords ==
    {[key |-> [k \in 1..Len(output_rows[p].keys) |-> output_rows[p].keys[k][2]],
      field |-> output_rows[p].fields[f].field,
      before |-> output_rows[p].fields[f].before,
      after |-> output_rows[p].fields[f].after] :
        <<p, f>> \in {pf \in (1..Len(output_rows)) \X (1..Len(FullHeader) + 1) :
                        pf[2] <= Len(output_rows[pf[1]].fields)}}
EmittedCount ==
    Cardinality({pf \in (1..Len(output_rows)) \X (1..Len(FullHeader) + 1) :
                   pf[2] <= Len(output_rows[pf[1]].fields)})

\* The records the aligned frames call for: one per row and column whose two
\* cells differ.
ExpectedRecords ==
    {[key |-> df_before_aligned.index[r],
      field |-> df_before_aligned.columns[c],
      before |-> Opt(df_before_aligned.data[r][c]),
      after |-> Opt(df_after_aligned.data[r][c])] :
        <<r, c>> \in {rc \in (1..Len(df_before_aligned.data)) \X (1..Len(df_before_aligned.columns)) :
                        df_before_aligned.data[rc[1]][rc[2]] # df_after_aligned.data[rc[1]][rc[2]]}}

\* C1: for datasets with equal row counts and unique, identical key tuples,
\* the result holds exactly one record (key tuple, field, before, after) for
\* each field of each row whose two values differ, and none for the others.
C1_OneRecordPerDifference ==
    (pc = "final" /\ ~HasDuplicate(df_before_aligned.index))
        => /\ EmittedRecords = ExpectedRecords
           /\ EmittedCount = Cardinality(ExpectedRecords)

\* C2: when the two datasets have different row counts the outcome is the
\* RowCountMismatch report with both file names and both counts and nothing
\* else, and the job gets neither to the alignment nor to the comparison nor
\* to an exception.
C2_RowCountMismatch ==
    /\ \A j \in Reported :
          (WellFormed(Entry(j)) /\ BothAvailable(Entry(j)) /\ ~EqualRowCounts(Entry(j)))
             => stdout[j] = [kind |-> "RowCountMismatch",
                             before |-> Entry(j).before_path.base,
                             before_rows |-> RowCount(BeforeOf(Entry(j)), 1),
                             after |-> Entry(j).after_path.base,
                             after_rows |-> RowCount(AfterOf(Entry(j)), 0)]
    /\ pc \in {"align", "compare", "format", "final", "raised"} => EqualRowCounts(test_case)

\* A job ended with RowCountMismatch, its 'before' file being the longer one.
C2_Witness ==
    \E j \in Reported :
        /\ stdout[j].kind = "RowCountMismatch"
        /\ stdout[j].before_rows > stdout[j].after_rows

\* C3: when a source is missing or unreadable the outcome is SourceUnavailable
\* with a message naming each such path, and the job gets neither to the row
\* count check nor to the comparison nor to an exception.
C3_SourceUnavailable ==
    /\ \A j \in Reported :
          (WellFormed(Entry(j)) /\ ~BothAvailable(Entry(j)))
             => /\ stdout[j].kind = "SourceUnavailable"
                /\ ~Available(BeforeOf(Entry(j)), 1)
                     => \E m \in Range(stdout[j].printed) : m.path = Entry(j).before_path
                /\ ~Available(AfterOf(Entry(j)), 0)
                     => \E m \in Range(stdout[j].printed) : m.path = Entry(j).after_path
    /\ pc \in {"rowcount", "align", "compare", "format", "final", "raised"}
          => BothAvailable(test_case)

\* A job ended with SourceUnavailable because of its 'after' file alone.
C3_Witness ==
    \E j \in Reported :
        /\ stdout[j].kind = "SourceUnavailable"
        /\ Available(BeforeOf(Entry(j)), 1)
        /\ \E m \in Range(stdout[j].printed) : m.path = Entry(j).after_path

C5_KeysAsserted ==
    /\ \A j \in Reported :
          (WellFormed(Entry(j)) /\ BothAvailable(Entry(j)) /\ EqualRowCounts(Entry(j))
             /\ MissingKeys(Entry(j)) = {}
             /\ (BadKeys(KeyTuples(BeforeOf(Entry(j)), 1)) \/ BadKeys(KeyTuples(AfterOf(Entry(j)), 0))))
            => stdout[j].kind = "KeyColumnError"
    /\ Comparing => ~(BadKeys(df_before_aligned.index) \/ BadKeys(df_after_aligned.index))

\* The positions of the well-formed entries of the job list, in list order.
WellFormedPositions ==
    SelectSeq([j \in 1..Len(config.input_files) |-> j], LAMBDA j : WellFormed(Entry(j)))

\* C6: when main has ended, run_comparison_test has been called exactly once
\* for every well-formed entry, in list order: no job's failure ends the batch.
C6_EveryJobRun ==
    (pc \in {"returned", "raised"} /\ config # None /\ "input_files" \in DOMAIN config)
        => calls = WellFormedPositions

\* C7: datasets with the same rows but different column sets are compared
\* over the union of their columns; the comparison does not fail on them.
C7_UnionOfColumns ==
    (pc = "raised" /\ df_before_aligned.index = df_after_aligned.index)
        => Range(df_before_aligned.columns) = Range(df_after_aligned.columns)

\* C8: a field with a value in the before row and none in the after row of an
\* aligned pair is reported as a record of that field with the before value
\* and an absent after value, and the same the other way round.
C8_OneSidedValueReported ==
    pc = "final" =>
        \A r \in 1..Len(df_before_aligned.data), c \in 1..Len(df_before_aligned.columns) :
            LET b == df_before_aligned.data[r][c]
                a == df_after_aligned.data[r][c]
            IN  ((b = NaN) # (a = NaN))
                  => [key |-> df_before_aligned.index[r],
                      field |-> df_before_aligned.columns[c],
                      before |-> Opt(b), after |-> Opt(a)] \in EmittedRecords

\* The NAME cell of a data line under FullHeader, as the file has it.
CellState(line) ==
    IF Len(line) < Len(FullHeader) THEN "absent"
    ELSE IF line[Len(FullHeader)] = "" THEN "empty"
    ELSE "text"
LinesWithKey(file, skip, key) ==
    {l \in Range(DataLinesOf(file, skip)) :
        Len(l) >= Len(KEY_COLS) /\ SubSeq(l, 1, Len(KEY_COLS)) = key}
\* output_rows has a row for the key tuple: the pair was found to differ.
KeyReported(key) ==
    \E p \in 1..Len(output_rows) :
        [k \in 1..Len(output_rows[p].keys) |-> output_rows[p].keys[k][2]] = key
\* The job at hand has FullHeader on both sides and no key tuple twice.
PlainJobAtFinal ==
    /\ pc = "final"
    /\ HeaderOf(BeforeOf(test_case), 1) = FullHeader
    /\ HeaderOf(AfterOf(test_case), 0) = FullHeader
    /\ ~HasDuplicate(df_before_aligned.index)

AlignedBefore(entry) == sort_index(set_index(ReadCsv(BeforeOf(entry), 1), KEY_COLS))
AlignedAfter(entry) == sort_index(set_index(ReadCsv(AfterOf(entry), 0), KEY_COLS))
\* The job's datasets can be compared row by row and column by column.
Comparable(entry) ==
    /\ WellFormed(entry) /\ BothAvailable(entry) /\ EqualRowCounts(entry)
    /\ MissingKeys(entry) = {}
    /\ AlignedBefore(entry).index = AlignedAfter(entry).index
    /\ AlignedBefore(entry).columns = AlignedAfter(entry).columns
\* Some aligned pair of rows disagrees on some field.
Disagrees(entry) ==
    \E r \in 1..Len(AlignedBefore(entry).data), c \in 1..Len(AlignedBefore(entry).columns) :
        AlignedBefore(entry).data[r][c] # AlignedAfter(entry).data[r][c]

\* C10: a comparison reports no differences exactly when no aligned pair
\* disagrees on any field, and differences (at least one output row) exactly
\* when some pair does; these two reports are given to comparable jobs only.
C10_CleanIffNoDisagreement ==
    \A j \in Reported :
        /\ Comparable(Entry(j))
             => IF Disagrees(Entry(j))
                THEN stdout[j].kind = "DifferencesFound" /\ stdout[j].rows # <<>>
                ELSE stdout[j] = [kind |-> "NoDifferences"]
        /\ stdout[j].kind \in {"NoDifferences", "DifferencesFound"} => Comparable(Entry(j))

\* A batch has reported one job as clean, its files holding a row, and
\* another as differing.
C10_Witness ==
    \E j, k \in Reported :
        /\ stdout[j].kind = "NoDifferences"
        /\ RowCount(BeforeOf(Entry(j)), 1) > 0
        /\ stdout[k].kind = "DifferencesFound"

\* The records a diff frame holds: for every row pair (key..., 'self'),
\* (key..., 'other') and every column where one of the two cells is not NaN,
\* the key tuple, the column, the self value and the other value.
DiffRecords(diff) ==
    {[key |-> SubSeq(diff.index[2 * pc2[1]], 1, Len(KEY_COLS)),
      field |-> diff.columns[pc2[2]],
      before |-> Opt(diff.data[2 * pc2[1] - 1][pc2[2]]),
      after |-> Opt(diff.data[2 * pc2[1]][pc2[2]])] :
        pc2 \in {x \in (1..(Len(diff.index) \div 2)) \X (1..Len(diff.columns)) :
                   diff.data[2 * x[1] - 1][x[2]] # NaN \/ diff.data[2 * x[1]][x[2]] # NaN}}
Flagged(records) == {<<rec.key, rec.field>> : rec \in records}
Swapped(rec) == [key |-> rec.key, field |-> rec.field, before |-> rec.after, after |-> rec.before]

\* The key tuples of printed rows, in order, and the field records they hold.
RowKeys(rows) ==
    [p \in 1..Len(rows) |-> [k \in 1..Len(rows[p].keys) |-> rows[p].keys[k][2]]]
RowRecords(rows) ==
    {[key |-> RowKeys(rows)[pf[1]],
      field |-> rows[pf[1]].fields[pf[2]].field,
      before |-> rows[pf[1]].fields[pf[2]].before,
      after |-> rows[pf[1]].fields[pf[2]].after] :
        pf \in {x \in (1..Len(rows)) \X (1..Len(FullHeader) + 1) :
                  x[2] <= Len(rows[x[1]].fields)}}
ReportedRows(report) == IF report.kind = "DifferencesFound" THEN report.rows ELSE <<>>

\* The second entry compares the datasets of the first the other way round,
\* and its comparison has been made and formatted.
MirrorAtFinal ==
    /\ pc = "final" /\ i = 2
    /\ WellFormed(Entry(1)) /\ BothAvailable(Entry(1))
    /\ ReadCsv(BeforeOf(Entry(2)), 1) = ReadCsv(AfterOf(Entry(1)), 0)
    /\ ReadCsv(AfterOf(Entry(2)), 0) = ReadCsv(BeforeOf(Entry(1)), 1)
\* The diff frame of the first entry's comparison.
ForwardDiff == compare(AlignedBefore(Entry(1)), AlignedAfter(Entry(1)))

\* C11: comparing A to B and B to A flags the same (key tuple, field) pairs,
\* and the records of one direction are those of the other with before and
\* after swapped: in the diff frame, and in the rows printed from it.
C11_SymmetricDetection ==
    MirrorAtFinal =>
        /\ stdout[1].kind \in {"NoDifferences", "DifferencesFound"}
        /\ Flagged(DiffRecords(df_diff)) = Flagged(DiffRecords(ForwardDiff))
        /\ DiffRecords(df_diff) = {Swapped(rec) : rec \in DiffRecords(ForwardDiff)}
        /\ RowKeys(output_rows) = RowKeys(ReportedRows(stdout[1]))
        /\ RowRecords(output_rows) = {Swapped(rec) : rec \in RowRecords(ReportedRows(stdout[1]))}

\* B has been compared to A after A to B, A having a name where B has none,
\* and both directions found a difference.
C11_Witness ==
    /\ MirrorAtFinal
    /\ stdout[1].kind = "DifferencesFound"
    /\ \E rec \in DiffRecords(df_diff) : rec.before = <<>> /\ rec.after # <<>>

\* The key tuples of the aligned rows on which the two frames differ somewhere.
DifferingKeys ==
    {df_before_aligned.index[r] :
        r \in {x \in 1..Len(df_before_aligned.data) :
                 \E c \in 1..Len(df_before_aligned.columns) :
                     df_before_aligned.data[x][c] # df_after_aligned.data[x][c]}}

\* C12: the printed rows are in ascending order of key tuple, each differing
\* key tuple appearing once, whatever the row order of the files, and the
\* fields of a row follow the column order.
C12_OrderedByKey ==
    (pc = "final" /\ ~HasDuplicate(df_before_aligned.index))
        => /\ \A p \in 1..(Len(output_rows) - 1) :
                 TupleLess(RowKeys(output_rows)[p], RowKeys(output_rows)[p + 1])
           /\ Range(RowKeys(output_rows)) = DifferingKeys
           /\ \A p \in 1..Len(output_rows) :
                 \A f, g \in 1..Len(output_rows[p].fields) :
                     f < g => ColPos(df_before_aligned.columns, output_rows[p].fields[f].field)
                                < ColPos(df_before_aligned.columns, output_rows[p].fields[g].field)

\* ===================================================================
\* extract_tables of src/pdf_table_extractor.py and of
\* src/pdf_table_extractor_to_json.py, and the loop of main that calls it.
\*
\* A document is [opens, pages].  A page is what the libraries give for it:
\* read_pdf ("ok", or "raises" when tabula.read_pdf throws), page_tables
\* (tabula's DataFrames, as [columns, data]), detected_tables (pdfplumber's
\* find_tables, each with the top of its bbox) and words (extract_words, each
\* with its bottom and text).  Positions are in hundredths of a point.
\* ===================================================================

\* ------------------------------------------------------------------ bounds
\* Most pages of the first document of a batch.
MaxPages == 2
\* Most documents of a batch (main's pdf_files).
MaxDocs == 2

\* --------------------------------------------------------------- constants
\* How far above a table's top edge a line may be to give its title, in points.
TitleWindow == 120

\* ------------------------------------------------------------ extract_tables
\* round(w["bottom"], 1): the nearest tenth of a point.  (No input lies half
\* way between two tenths.)
Round1(h) == ((h + 5) \div 10) * 10

RECURSIVE WordsAt(_, _)
\* The texts of the words whose rounded bottom is y, in reading order.
WordsAt(words, y) ==
    IF words = <<>> THEN <<>>
    ELSE (IF Round1(words[1].bottom) = y THEN <<words[1].text>> ELSE <<>>)
         \o WordsAt(Tail(words), y)

\* The dict built from the words: rounded bottom -> texts.
line_map(words) ==
    [y \in {Round1(words[n].bottom) : n \in 1..Len(words)} |-> WordsAt(words, y)]

RECURSIVE Join(_)
\* " ".join(v) of a non-empty list of texts.
Join(v) == IF Len(v) = 1 THEN v[1] ELSE v[1] \o " " \o Join(Tail(v))

\* {k: " ".join(v).strip()}: extract_words gives words without whitespace, so
\* the joined text has none at its ends for strip() to remove.
line_texts(words) ==
    [k \in DOMAIN line_map(words) |-> Join(line_map(words)[k])]

\* The keys of above_lines: the lines above top and less than TitleWindow
\* points from it.
above_lines(texts, top) ==
    {y \in DOMAIN texts : y < top /\ (top - y) < TitleWindow * 100}

nearest_y(above) == CHOOSE y \in above : \A z \in above : z <= y

\* The title read off the page: the text of the nearest line above the
\* detected table of the same position, "" when there is none.
LineTitle(page, n) ==
    IF page.detected_tables # <<>> /\ Len(page.detected_tables) > n
    THEN LET top == page.detected_tables[n + 1].top
             texts == line_texts(page.words)
             above == above_lines(texts, top)
         IN  IF above # {} THEN texts[nearest_y(above)] ELSE ""
    ELSE ""

\* re.search(r"[A-Za-z]", ...) on the column labels the inputs use.
HasLetter(text) ==
    CASE text = "2024" -> FALSE
      [] text = "1" -> FALSE
      [] OTHER -> TRUE

\* f"Table_{page_num}_{idx+1}"
FallbackTitle(p, n) == "Table_" \o ToString(p) \o "_" \o ToString(n + 1)

\* The title of table n (from 0) of page p: the line above it, else its first
\* column label when that has a letter, else the numbered title.
InferTitle(page, p, n, table) ==
    LET title == LineTitle(page, n)
        possible_title == table.columns[1]
    IN  IF title # "" THEN title
        ELSE IF HasLetter(possible_title) THEN possible_title
        ELSE FallbackTitle(p, n)

\* DataFrame.empty: no rows or no columns.
Empty(table) == Len(table.columns) = 0 \/ Len(table.data) = 0

\* table.dropna(how='all').reset_index(drop=True): the rows that are NaN
\* throughout are removed.
dropna(table) ==
    [columns |-> table.columns,
     data |-> SelectSeq(table.data, LAMBDA row : \E c \in 1..Len(row) : row[c] # NaN)]

\* table.fillna("").to_dict(orient="records"): one dict per row, NaN as "".
to_dict(table) ==
    [r \in 1..Len(table.data) |->
        [c \in Range(table.columns) |->
            LET v == table.data[r][ColPos(table.columns, c)]
            IN  IF v = NaN THEN "" ELSE v]]

\* What is appended to all_tables: the Excel extractor keeps the DataFrame,
\* the JSON extractor its records.
TableEntry(program, title, table) ==
    [title |-> title,
     data |-> IF program = "json" THEN to_dict(dropna(table)) ELSE dropna(table)]

\* A faulty Seen: no title counts as seen.
Seen_Never(title, seen) == FALSE

\* 'if title in seen_titles: continue'
Seen(title, seen) == title \in seen

\* ------------------------------------------------------------------- inputs
Word(bottom, text) == [bottom |-> bottom, text |-> text]
Table(label) == [columns |-> <<label>>, data |-> <<<<"10">>, <<NaN>>>>]
Page(page_tables, tops, words) ==
    [read_pdf |-> "ok", page_tables |-> page_tables,
     detected_tables |-> [n \in 1..Len(tops) |-> [top |-> tops[n]]],
     words |-> words]

\* One table under the line "Claims Summary", whose two words differ a little
\* in height; a farther line above it and a line below it.
TitledPage ==
    Page(<<Table("Drug")>>, <<30000>>,
         <<Word(20000, "Audit"), Word(25004, "Claims"), Word(25001, "Summary"),
           Word(31000, "Below")>>)
\* Another table under a line of the same text; its only row is NaN.
RepeatPage ==
    Page(<<[columns |-> <<"Qty">>, data |-> <<<<NaN>>>>]>>, <<40000>>,
         <<Word(35000, "Claims"), Word(35002, "Summary")>>)
\* Two tables, of which pdfplumber detects one; the second has a numeric label.
TwoTablePage ==
    Page(<<Table("Drug"), Table("2024")>>, <<30000>>, <<Word(29000, "Totals")>>)
\* tabula.read_pdf raises on this page.
ErrorPage ==
    [read_pdf |-> "raises", page_tables |-> <<>>, detected_tables |-> <<>>, words |-> <<>>]
\* tabula finds no table.
BlankPage == Page(<<>>, <<>>, <<Word(10000, "Notes")>>)
\* An empty table, then two tables with the label of a blank header; nothing
\* detected by pdfplumber.
UnnamedPage ==
    Page(<<[columns |-> <<"Drug">>, data |-> <<>>], Table("Unnamed: 0"),
           Table("Unnamed: 0")>>, <<>>, <<>>)
\* A table under a line that reads like a numbered title.
NumberedLinePage == Page(<<Table("1")>>, <<30000>>, <<Word(28000, "Table_1_2")>>)
\* The only line above the table is exactly TitleWindow points from it.
FarLinePage ==
    Page(<<Table("Drug")>>, <<30000>>, <<Word(18000, "Header"), Word(31000, "Footer")>>)

PageKinds ==
    {TitledPage, RepeatPage, TwoTablePage, ErrorPage, BlankPage, UnnamedPage,
     NumberedLinePage, FarLinePage}

\* pdfplumber.open raises on this document.
Unreadable == [opens |-> FALSE, pages |-> <<>>]
Doc(pages) == [opens |-> TRUE, pages |-> pages]
Docs == {Doc(pages) : pages \in SeqsUpTo(PageKinds, MaxPages)} \cup {Unreadable}
ShortDocs == {Doc(<<TitledPage>>), Doc(<<UnnamedPage>>)}

\* main's pdf_files: any document, then short ones.
Batches ==
    {<<d>> \o rest : d \in Docs, rest \in SeqsUpTo(ShortDocs, MaxDocs - 1)}

\* The Excel extractor imports tabula when it starts; the JSON extractor in
\* each call of extract_tables, where the import may fail.
Extractors ==
    {[program |-> "excel", tabula |-> TRUE],
     [program |-> "json", tabula |-> TRUE],
     [program |-> "json", tabula |-> FALSE]}

\* ------------------------------------------------------------------ actions
\* The comparison tool is not running.
CompareIdle ==
    /\ config_file = [exists |-> FALSE, content |-> None]
    /\ fs = <<>>
    /\ pc = "exited"
    /\ config = None
    /\ i = 0
    /\ calls = <<>>
    /\ stdout = <<>>
    /\ df_before = None /\ df_after = None
    /\ df_before_aligned = None /\ df_after_aligned = None
    /\ df_diff = None
    /\ output_rows = <<>>

\* main has listed the documents and stands before its loop over pdf_files.
PdfInit ==
    /\ CompareIdle
    /\ extractor \in Extractors
    /\ pdf_files \in Batches
    /\ pdf_pc = "loop"
    /\ pdf_file = 0
    /\ page_num = 0
    /\ idx = 0
    /\ seen_titles = {}
    /\ all_tables = <<>>
    /\ tables = <<>>
    /\ pdf_data = <<>>
    /\ log = <<>>

document == pdf_files[pdf_file]

\* The outer 'except Exception': the failure is logged and [] returned.
Failure(file) ==
    /\ tables' = <<>>
    /\ log' = Append(log, [level |-> "ERROR", message |-> "Table extraction failed",
                           file |-> file])
    /\ pdf_pc' = "returned"

\* main calls extract_tables for the next document; the call runs to the
\* opening of the document.  (extract_metadata, called just before, takes no
\* part in the tables.)
CallExtractTables ==
    /\ pdf_pc = "loop"
    /\ pdf_file < Len(pdf_files)
    /\ pdf_file' = pdf_file + 1
    /\ page_num' = 0
    /\ idx' = 0
    /\ all_tables' = <<>>
    /\ seen_titles' = {}
    /\ IF ~extractor.tabula
       THEN /\ tables' = <<>>
            /\ log' = Append(log, [level |-> "ERROR",
                                   message |-> "tabula-py or Java not found",
                                   file |-> pdf_file + 1])
            /\ pdf_pc' = "returned"
       ELSE IF ~pdf_files[pdf_file + 1].opens
       THEN Failure(pdf_file + 1)
       ELSE /\ pdf_pc' = "pages"
            /\ UNCHANGED <<tables, log>>
    /\ UNCHANGED <<extractor, pdf_files, pdf_data, compare_vars>>

\* The for loop over pdf.pages takes the next page and reads its tables.
NextPage ==
    /\ pdf_pc = "pages"
    /\ page_num < Len(document.pages)
    /\ page_num' = page_num + 1
    /\ idx' = 0
    /\ LET page == document.pages[page_num']
       IN  IF page.read_pdf = "raises"
           THEN Failure(pdf_file)
           ELSE /\ pdf_pc' = IF page.page_tables = <<>> THEN "pages" ELSE "tables"
                /\ UNCHANGED <<tables, log>>
    /\ UNCHANGED <<extractor, pdf_files, pdf_file, seen_titles, all_tables, pdf_data,
                   compare_vars>>

\* One pass of the for loop over page_tables.
NextTable ==
    /\ pdf_pc = "tables"
    /\ LET page == document.pages[page_num]
           table == page.page_tables[idx + 1]
           title == InferTitle(page, page_num, idx, dropna(table))
       IN  /\ IF Empty(table) \/ Seen(title, seen_titles)
              THEN UNCHANGED <<seen_titles, all_tables>>
              ELSE /\ seen_titles' = seen_titles \cup {title}
                   /\ all_tables' = Append(all_tables,
                                           TableEntry(extractor.program, title, table))
           /\ idx' = idx + 1
           /\ pdf_pc' = IF idx' = Len(page.page_tables) THEN "pages" ELSE "tables"
    /\ UNCHANGED <<extractor, pdf_files, pdf_file, page_num, tables, pdf_data, log,
                   compare_vars>>

\* After the last page: the count is logged and all_tables returned.
ReturnTables ==
    /\ pdf_pc = "pages"
    /\ page_num = Len(document.pages)
    /\ tables' = all_tables
    /\ log' = Append(log, [level |-> "INFO", message |-> "Extracted",
                           count |-> Len(all_tables), file |-> pdf_file])
    /\ pdf_pc' = "returned"
    /\ UNCHANGED <<extractor, pdf_files, pdf_file, page_num, idx, seen_titles,
                   all_tables, pdf_data, compare_vars>>

\* main stores what the call returned and moves on.
StoreTables ==
    /\ pdf_pc = "returned"
    /\ pdf_data' = Append(pdf_data, tables)
    /\ pdf_pc' = "loop"
    /\ UNCHANGED <<extractor, pdf_files, pdf_file, page_num, idx, seen_titles,
                   all_tables, tables, log, compare_vars>>

PdfNext ==
    \/ CallExtractTables
    \/ NextPage
    \/ NextTable
    \/ ReturnTables
    \/ StoreTables

SpecPdf == PdfInit /\ [][PdfNext]_vars

\* -------------------------------------------- facts about a call's document
\* Read off the document and the log, for stating the property below.

\* The call that has just returned ended in a handler of an exception.
Failed == log[Len(log)].level = "ERROR"

\* The non-empty tables of page p, in order, each with its inferred title.
PageDetected(page, p) ==
    LET upto[n \in 0..Len(page.page_tables)] ==
            IF n = 0 THEN <<>>
            ELSE upto[n - 1]
                 \o (IF Empty(page.page_tables[n]) THEN <<>>
                     ELSE <<[title |-> InferTitle(page, p, n - 1, page.page_tables[n]),
                             table |-> page.page_tables[n]]>>)
    IN  upto[Len(page.page_tables)]

\* The non-empty tables detected by the call, in scan order: those of the
\* pages it reached and read_pdf gave tables for.
Detected ==
    LET upto[p \in 0..page_num] ==
            IF p = 0 THEN <<>>
            ELSE upto[p - 1]
                 \o (IF document.pages[p].read_pdf = "ok"
                     THEN PageDetected(document.pages[p], p) ELSE <<>>)
    IN  upto[page_num]

DetectedTitles == {Detected[n].title : n \in 1..Len(Detected)}

\* The first detected table of each title, in scan order.
FirstOfTitle ==
    SelectSeq([n \in 1..Len(Detected) |-> [n |-> n, at |-> Detected[n]]],
              LAMBDA e : \A m \in 1..(e.n - 1) : Detected[m].title # e.at.title)

\* The returned tables are the first detected table of each title and no
\* other, every returned title is in the seen-title set, and there are as
\* many of them as distinct detected titles.
FirstOfEachTitleKept ==
    /\ \A m, n \in 1..Len(tables) : m # n => tables[m].title # tables[n].title
    /\ Len(tables) = Len(FirstOfTitle)
    /\ \A n \in 1..Len(tables) :
          tables[n] = TableEntry(extractor.program, FirstOfTitle[n].at.title,
                                 FirstOfTitle[n].at.table)
    /\ \A n \in 1..Len(tables) : tables[n].title \in seen_titles
    /\ Len(tables) = Cardinality(DetectedTitles)

\* While a document is scanned the seen-title set holds the titles kept from
\* it and nothing else: it started empty for this document.
SeenOfThisDocument ==
    pdf_pc \in {"pages", "tables"}
        => seen_titles = {all_tables[n].title : n \in 1..Len(all_tables)}

\* C13 as stated: the tables extract_tables returns for a document have
\* pairwise distinct titles, the first detected non-empty table of each title
\* being kept and the later ones dropped, every kept title is in the
\* seen-title set, the number of returned tables equals the number of distinct
\* titles among the non-empty detected tables, and the seen-title set starts
\* empty for each document.
C13_DistinctTitles ==
    /\ pdf_pc = "returned" => FirstOfEachTitleKept
    /\ SeenOfThisDocument

\* C13, amended: the same when no step of the extraction raises; when one
\* does (the import of tabula in the JSON extractor, the opening of the
\* document, the reading of a page), extract_tables returns no table at all.
C13_DistinctTitlesUnlessFailed ==
    /\ pdf_pc = "returned" => IF Failed THEN tables = <<>> ELSE FirstOfEachTitleKept
    /\ SeenOfThisDocument

\* The second document of a batch has been extracted without failure: a
\* table was dropped for its title, and a title the first document had is
\* kept again.
C13_Witness ==
    /\ pdf_pc = "returned"
    /\ ~Failed
    /\ pdf_file = 2
    /\ Len(tables) < Len(Detected)
    /\ \E n \in 1..Len(tables) : \E m \in 1..Len(pdf_data[1]) :
          tables[n].title = pdf_data[1][m].title

====
